---- MODULE Spec2Model ----
(***************************************************************************)
(* qANSI / qANSI_VT: a buffered virtual terminal over an ANSI byte stream. *)
(* The object vt is one qANSI_VT instance (fields of qANSI and qANSI_VT),  *)
(* every public method is one action, and every method body is an operator *)
(* from object state to object state.                                      *)
(***************************************************************************)
EXTENDS Integers, Sequences, FiniteSets

VARIABLES vt, op, prev, ret, steps, pc, screen, ansi

vars == <<vt, op, prev, ret, steps, pc, screen, ansi>>

(* ------------------------------ bounds --------------------------------- *)
(* a grid dimension up to this size has every set of its rows (columns)    *)
(* stamped; a larger one the sets 1..k                                     *)
MaxFree == 5
(* number of public calls made on the instance after construction *)
MaxSteps == 3
(* length of the longest string handed to print() *)
MaxStr == 3
(* number of calls made on a qANSI instance of its own *)
MaxBytes == 5

(* -------------------------- program constants -------------------------- *)
FG_RED == 31
FG_DEFAULT == 39
BG_RED == 41
BG_DEFAULT == 49
RESET == 0
BOLD == 1
UINT8 == 256

NL == 10
CR == 13
BS == 8
SPACE == 32

(* _buffer == nullptr: no cell is allocated *)
Null == <<>>
(* value of a member the constructor leaves uninitialised; never read     *)
(* before begin() or display() assigns it                                  *)
Indeterminate == -1

(* ------------------------------ inputs --------------------------------- *)
(* bytes handed to write(): the three handled control bytes, BEL for the   *)
(* unhandled bytes below 32, and the glyphs 'A' and 'B'                    *)
Bytes == {NL, CR, BS, 7, 65, 66}
(* the strings "A", "AB", "ABA", ... handed to print() *)
Text(n) == [i \in 1..n |-> IF i % 2 = 1 THEN 65 ELSE 66]
Strings == {Text(n) : n \in 1..MaxStr}
(* UINT8 - 1 newlines followed by the glyph 'A': as many line feeds as     *)
(* take an 8-bit row counter from r to r - 1 (modulo UINT8)                *)
LongText == [i \in 1..UINT8 |-> IF i < UINT8 THEN NL ELSE 65]
(* 254 newlines: from row 1 they take the row counter to its last value *)
LongLines == [i \in 1..(UINT8 - 2) |-> NL]
LongTexts == {LongText, LongLines}
(* strings handed to println(); the empty one stands for println()         *)
Lines == {<<>>, Text(1)}
(* styles the application selects; display(), begin() and clear(true)      *)
(* bring the defaults back                                                 *)
FgColors == {FG_RED}
BgColors == {BG_RED}
Attrs == {BOLD}
(* arguments <<defaultFg, defaultBg>> of begin() *)
BeginArgs == {<<FG_DEFAULT, BG_DEFAULT>>, <<FG_RED, BG_RED>>}
(* arguments <<x, y>> of setPosition() *)
Origins == {<<2, 2>>}
(* width of a double on the target: 32 bits on AVR, 64 elsewhere *)
DoubleBits == {32, 64}
(* constructor arguments <<width, height, posX, posY>> *)
Sizes == {<<0, 3, 1, 1>>, <<2, 0, 1, 1>>, <<1, 1, 1, 1>>, <<3, 4, 5, 3>>,
          <<1, 7, 5, 3>>}
ScrollArgs == {0, 1, 2, 255}
(* grids for the renderer: 5x4 has inner rows in a sparse update, 1x10 has *)
(* cell and row counts of exactly 70% and 30%, 9x10 has 90 cells           *)
RenderSizes == {<<5, 4, 5, 3>>, <<1, 10, 5, 3>>, <<9, 10, 5, 3>>}
(* the sets of rows (columns) of a dimension n that get written to *)
Parts(n) == IF n <= MaxFree THEN SUBSET (1..n) ELSE {1..k : k \in 0..n}
(* how the written cells are styled: all in the default style, or columns  *)
(* 3, 4 in red on the default background, column 3 in bold, and columns    *)
(* 7, 8 in red on red                                                      *)
StyleMaps == {"plain", "pairs"}
StyleOf(map, x) ==
  IF map = "pairs" /\ ((x - 1) \div 2) % 4 = 1
  THEN <<FG_RED, BG_DEFAULT, IF x % 2 = 1 THEN BOLD ELSE RESET>>
  ELSE IF map = "pairs" /\ ((x - 1) \div 2) % 4 = 3
  THEN <<FG_RED, BG_RED, RESET>>
  ELSE <<FG_DEFAULT, BG_DEFAULT, RESET>>
(* coordinates handed to setCursor and getCharAt: two corners, one inner   *)
(* cell, coordinates beyond each edge and the largest column on row 3      *)
Coords(s) ==
  {<<1, 1>>, <<2, 2>>, <<s._width, s._height>>, <<0, 0>>,
   <<s._width + 1, 1>>, <<1, s._height + 1>>, <<255, 255>>, <<255, 3>>}

(* ------------------------------ helpers -------------------------------- *)
min(a, b) == IF a < b THEN a ELSE b

constrain(amt, low, high) ==
  IF amt < low THEN low ELSE IF amt > high THEN high ELSE amt

AnsiCell(ch, fg, bg, attr, d) ==
  [character |-> ch, fgColor |-> fg, bgColor |-> bg, attributes |-> attr,
   dirty |-> d]

(* One item sent to the Stream: kind "SGR" is ESC[<a>m, "CUP" is           *)
(* ESC[<a>;<b>H (a = row, b = column), "HIDE"/"SHOW" are ESC[?25l/h,       *)
(* "ED" is ESC[2J and "CH" is the single byte a.                           *)
Cmd(k, a, b) == [cmd |-> k, a |-> a, b |-> b]

_sendAnsiCommand(s, c) == [s EXCEPT !._output = Append(@, c)]

outputWrite(s, c) == [s EXCEPT !._output = Append(@, Cmd("CH", c, 0))]

(* qANSI::setCursor: both arguments are uint8_t *)
qANSI_setCursor(s, col, row) ==
  _sendAnsiCommand(s, Cmd("CUP", row % UINT8, col % UINT8))

setTextColor(s, fg) ==
  _sendAnsiCommand([s EXCEPT !._currentFg = fg], Cmd("SGR", fg, 0))

setTextBackgroundColor(s, bg) ==
  _sendAnsiCommand([s EXCEPT !._currentBg = bg], Cmd("SGR", bg, 0))

setTextAttribute(s, attr) ==
  _sendAnsiCommand([s EXCEPT !._currentAttr = attr], Cmd("SGR", attr, 0))

resetAttributes(s) ==
  [_sendAnsiCommand(s, Cmd("SGR", 0, 0)) EXCEPT
     !._currentAttr = RESET, !._currentFg = FG_DEFAULT,
     !._currentBg = BG_DEFAULT]

setCursorVisible(s, visible) ==
  _sendAnsiCommand([s EXCEPT !._cursorVisible = visible],
                   Cmd(IF visible THEN "SHOW" ELSE "HIDE", 0, 0))

clearScreen(s) ==
  qANSI_setCursor(_sendAnsiCommand(s, Cmd("ED", 2, 0)), 1, 1)

qANSI_begin(s, defaultFg, defaultBg) ==
  clearScreen(resetAttributes(
    [s EXCEPT !._currentFg = defaultFg, !._currentBg = defaultBg,
              !._currentAttr = RESET]))

(* ----------------------- qANSI: the pipe codes ------------------------- *)
(* A qANSI instance of its own, in front of the sink. _output holds all    *)
(* that the sink has received, in order; written holds every byte handed   *)
(* to write() (instrumentation).                                           *)
PIPE == 124
ZERO == 48
NINE == 57
(* bytes handed to qANSI::write: the pipe, four digits, a letter *)
PipeBytes == {PIPE, ZERO, 50, 51, 52, 65}

(* the foreground colours of the codes 00..15 *)
PipeForegrounds ==
  <<30, 34, 32, 36, 31, 35, 33, 37, 90, 94, 92, 96, 91, 95, 93, 97>>
(* the background colours of the codes 16..23 *)
PipeBackgrounds == <<40, 44, 42, 46, 41, 45, 43, 47>>
(* the attributes of the codes 25..32 *)
PipeAttributes == <<1, 4, 5, 7, 22, 24, 25, 27>>

qANSI ==
  [_output |-> <<>>, _cursorVisible |-> TRUE, _pipeCodesEnabled |-> TRUE,
   _currentFg |-> FG_DEFAULT, _currentBg |-> BG_DEFAULT,
   _currentAttr |-> RESET, _pipeSequenceState |-> 0, _pipeChar1 |-> 0,
   written |-> <<>>]

enablePipeCodes(a, enable) ==
  [a EXCEPT !._pipeCodesEnabled = enable,
            !._pipeSequenceState = IF ~enable THEN 0 ELSE @]

(* the three bytes of a sequence that is no code, sent on as they came *)
forwardSequence(a, c1, c2) ==
  [vt |-> outputWrite(outputWrite(outputWrite(a, PIPE), c1), c2),
   ret |-> 1 + 2]

(* mutant: a sequence that is no code is sent on without its pipe *)
_processPipeCode_dropsPipe(a, c1, c2) ==
  LET code == (c1 - ZERO) * 10 + (c2 - ZERO)
  IN IF c1 >= ZERO /\ c1 <= NINE /\ c2 >= ZERO /\ c2 <= NINE /\ code <= 32
     THEN [vt |-> IF code <= 15
                  THEN setTextColor(a, PipeForegrounds[code + 1])
                  ELSE IF code <= 23
                  THEN setTextBackgroundColor(a, PipeBackgrounds[code - 15])
                  ELSE IF code = 24 THEN resetAttributes(a)
                  ELSE setTextAttribute(a, PipeAttributes[code - 24]),
           ret |-> 3]
     ELSE [vt |-> outputWrite(outputWrite(a, c1), c2), ret |-> 1 + 2]

_processPipeCode(a, c1, c2) ==
  LET code == (c1 - ZERO) * 10 + (c2 - ZERO)
  IN IF c1 >= ZERO /\ c1 <= NINE /\ c2 >= ZERO /\ c2 <= NINE
     THEN IF code <= 15
          THEN [vt |-> setTextColor(a, PipeForegrounds[code + 1]), ret |-> 3]
          ELSE IF code <= 23
          THEN [vt |-> setTextBackgroundColor(a, PipeBackgrounds[code - 15]),
                ret |-> 3]
          ELSE IF code = 24 THEN [vt |-> resetAttributes(a), ret |-> 3]
          ELSE IF code <= 32
          THEN [vt |-> setTextAttribute(a, PipeAttributes[code - 24]),
                ret |-> 3]
          ELSE forwardSequence(a, c1, c2)
     ELSE forwardSequence(a, c1, c2)

(* qANSI::write; the switch has no other state than 0, 1, 2 to meet *)
qANSI_write(a0, c) ==
  LET a == [a0 EXCEPT !.written = Append(@, c)]
  IN IF ~a._pipeCodesEnabled THEN [vt |-> outputWrite(a, c), ret |-> 1]
     ELSE IF a._pipeSequenceState = 0
     THEN IF c = PIPE
          THEN [vt |-> [a EXCEPT !._pipeSequenceState = 1], ret |-> 1]
          ELSE [vt |-> outputWrite(a, c), ret |-> 1]
     ELSE IF a._pipeSequenceState = 1
     THEN [vt |-> [a EXCEPT !._pipeChar1 = c, !._pipeSequenceState = 2],
           ret |-> 1]
     ELSE IF a._pipeSequenceState = 2
     THEN _processPipeCode([a EXCEPT !._pipeSequenceState = 0],
                           a._pipeChar1, c)
     ELSE [vt |-> outputWrite([a EXCEPT !._pipeSequenceState = 0], c),
           ret |-> 1]

(* ---------------------------- construction ----------------------------- *)
(* allocOk = FALSE is operator new returning nullptr                       *)
qANSI_VT(width, height, posX, posY, allocOk) ==
  LET ok == width > 0 /\ height > 0 /\ allocOk
      w == IF ok THEN width ELSE 0
      h == IF ok THEN height ELSE 0
  IN [_width |-> w, _height |-> h, _posX |-> posX, _posY |-> posY,
      _buffer |-> IF ok
                  THEN [i \in 0..(w * h - 1) |->
                          AnsiCell(SPACE, FG_DEFAULT, BG_DEFAULT, RESET, TRUE)]
                  ELSE Null,
      _cursorX |-> 1, _cursorY |-> 1,
      _terminalCursorX |-> 0, _terminalCursorY |-> 0,
      _terminalFg |-> Indeterminate, _terminalBg |-> Indeterminate,
      _terminalAttr |-> Indeterminate,
      _terminalStateKnown |-> FALSE, _scrollEnabled |-> TRUE,
      _lineWrappingEnabled |-> TRUE, _forceFullRedraw |-> TRUE,
      _currentFg |-> FG_DEFAULT, _currentBg |-> BG_DEFAULT,
      _currentAttr |-> RESET, _cursorVisible |-> TRUE,
      _output |-> <<>>, scrollLog |-> <<>>]

(* 1-based coordinates to 0-based buffer index, clamping both *)
_getIndex(s, col, row) ==
  (constrain(row, 1, s._height) - 1) * s._width
    + (constrain(col, 1, s._width) - 1)

(* mutant: the range check is missing and _getIndex clamps *)
getCharAt_clamping(s, col, row) ==
  IF s._buffer = Null THEN SPACE
  ELSE s._buffer[_getIndex(s, col, row)].character

getCharAt(s, col, row) ==
  IF s._buffer = Null \/ col < 1 \/ col > s._width
       \/ row < 1 \/ row > s._height
  THEN SPACE
  ELSE s._buffer[_getIndex(s, col, row)].character

(* ------------------------------- scroll -------------------------------- *)
(* The copy loop runs y upwards and reads row y+lines, which it has not    *)
(* written yet, so the in-place copy equals the simultaneous one.          *)
(* scrollLog records the argument of every call (instrumentation).         *)
(* mutant: the source row is y + 1 instead of y + lines *)
scrollUp_byOne(s0, linesArg) ==
  LET s == [s0 EXCEPT !.scrollLog = Append(@, linesArg)]
  IN IF s._buffer = Null \/ linesArg = 0 THEN s
     ELSE
       LET lines == min(linesArg, s._height)
           blank == AnsiCell(SPACE, s._currentFg, s._currentBg,
                             s._currentAttr, TRUE)
           cellAt(x, y) ==
             IF y <= s._height - lines
             THEN [s._buffer[_getIndex(s, x, y + 1)] EXCEPT !.dirty = TRUE]
             ELSE blank
       IN [s EXCEPT
             !._buffer = [i \in DOMAIN s._buffer |->
                            cellAt((i % s._width) + 1, (i \div s._width) + 1)],
             !._forceFullRedraw = TRUE]

scrollUp(s0, linesArg) ==
  LET s == [s0 EXCEPT !.scrollLog = Append(@, linesArg)]
  IN IF s._buffer = Null \/ linesArg = 0 THEN s
     ELSE
       LET lines == min(linesArg, s._height)
           blank == AnsiCell(SPACE, s._currentFg, s._currentBg,
                             s._currentAttr, TRUE)
           cellAt(x, y) ==
             IF y <= s._height - lines
             THEN [s._buffer[_getIndex(s, x, y + lines)] EXCEPT !.dirty = TRUE]
             ELSE blank
       IN [s EXCEPT
             !._buffer = [i \in DOMAIN s._buffer |->
                            cellAt((i % s._width) + 1, (i \div s._width) + 1)],
             !._forceFullRedraw = TRUE]

(* ------------------------------ setCursor ------------------------------ *)
(* mutant: the physical cursor is moved along with the logical one *)
setCursor_movesTerminal(s, colArg, rowArg) ==
  IF s._buffer = Null THEN s
  ELSE
    LET wrap == s._lineWrappingEnabled /\ colArg > s._width
        additionalRows == ((colArg - 1) \div s._width) % UINT8
        row1 == IF wrap THEN (rowArg + additionalRows) % UINT8 ELSE rowArg
        col1 == IF wrap THEN ((colArg - 1) % s._width) + 1 ELSE colArg
        scroll == s._scrollEnabled /\ row1 > s._height
        s1 == IF scroll THEN scrollUp(s, (row1 - s._height) % UINT8) ELSE s
        row2 == IF scroll THEN s._height ELSE row1
    IN qANSI_setCursor(
         [s1 EXCEPT !._cursorX = constrain(col1, 1, s._width),
                    !._cursorY = constrain(row2, 1, s._height)],
         constrain(col1, 1, s._width), constrain(row2, 1, s._height))

setCursor(s, colArg, rowArg) ==
  IF s._buffer = Null THEN s
  ELSE
    LET wrap == s._lineWrappingEnabled /\ colArg > s._width
        additionalRows == ((colArg - 1) \div s._width) % UINT8
        row1 == IF wrap THEN (rowArg + additionalRows) % UINT8 ELSE rowArg
        col1 == IF wrap THEN ((colArg - 1) % s._width) + 1 ELSE colArg
        scroll == s._scrollEnabled /\ row1 > s._height
        s1 == IF scroll THEN scrollUp(s, (row1 - s._height) % UINT8) ELSE s
        row2 == IF scroll THEN s._height ELSE row1
    IN [s1 EXCEPT !._cursorX = constrain(col1, 1, s._width),
                  !._cursorY = constrain(row2, 1, s._height)]

(* -------------------------------- clear -------------------------------- *)
RECURSIVE clearRow(_, _)
clearRow(s, x) ==
  IF x < s._width THEN clearRow(outputWrite(s, SPACE), x + 1) ELSE s

RECURSIVE clearPhysicalRows(_, _)
clearPhysicalRows(s, y) ==
  IF y < s._height
  THEN clearPhysicalRows(
         clearRow(qANSI_setCursor(s, s._posX, s._posY + y), 0), y + 1)
  ELSE s

clear(s, clearPhysical) ==
  IF s._buffer = Null THEN s
  ELSE
    LET blank == AnsiCell(SPACE, s._currentFg, s._currentBg,
                          s._currentAttr, TRUE)
        s1 == setCursor([s EXCEPT !._buffer = [i \in DOMAIN @ |-> blank]],
                        1, 1)
    IN IF ~clearPhysical THEN s1
       ELSE
         LET s2 == qANSI_setCursor(
                     clearPhysicalRows(resetAttributes(s1), 0),
                     s1._posX, s1._posY)
         IN [s2 EXCEPT !._terminalCursorX = s2._posX,
                       !._terminalCursorY = s2._posY,
                       !._terminalAttr = RESET,
                       !._terminalFg = FG_DEFAULT,
                       !._terminalBg = BG_DEFAULT,
                       !._terminalStateKnown = TRUE]

begin(s, defaultFg, defaultBg) ==
  IF s._buffer = Null THEN s
  ELSE clear([qANSI_begin(s, defaultFg, defaultBg) EXCEPT
                !._terminalFg = FG_DEFAULT, !._terminalBg = BG_DEFAULT,
                !._terminalAttr = RESET,
                !._terminalCursorX = 0, !._terminalCursorY = 0,
                !._terminalStateKnown = FALSE,
                !._forceFullRedraw = TRUE],
             TRUE)

setPosition(s, x, y) ==
  [s EXCEPT !._posX = x, !._posY = y, !._terminalStateKnown = FALSE,
            !._forceFullRedraw = TRUE]

setLineWrapping(s, enabled) == [s EXCEPT !._lineWrappingEnabled = enabled]

setScrolling(s, enabled) == [s EXCEPT !._scrollEnabled = enabled]

forceFullRedraw(s) ==
  [s EXCEPT !._forceFullRedraw = TRUE,
            !._buffer = IF @ = Null THEN @
                        ELSE [i \in DOMAIN @ |-> [@[i] EXCEPT !.dirty = TRUE]]]

(* -------------------------------- write -------------------------------- *)
inBounds(s) ==
  /\ s._cursorX >= 1 /\ s._cursorX <= s._width
  /\ s._cursorY >= 1 /\ s._cursorY <= s._height

(* mutant: the scroll test is _cursorY >= _height *)
nextLine_scrollsEarly(s) ==
  LET s1 == [s EXCEPT !._cursorY = (@ + 1) % UINT8]
  IN IF s1._cursorY >= s1._height /\ s1._scrollEnabled
     THEN [scrollUp(s1, 1) EXCEPT !._cursorY = s1._height]
     ELSE s1

(* cursor row advanced by one, with the scroll both callers perform *)
nextLine(s) ==
  LET s1 == [s EXCEPT !._cursorY = (@ + 1) % UINT8]
  IN IF s1._cursorY > s1._height /\ s1._scrollEnabled
     THEN [scrollUp(s1, 1) EXCEPT !._cursorY = s1._height]
     ELSE s1

(* mutant: the cell keeps the dirty flag it had *)
putGlyph_keepsFlag(s, c) ==
  IF inBounds(s)
  THEN [s EXCEPT !._buffer[_getIndex(s, s._cursorX, s._cursorY)] =
                   AnsiCell(c, s._currentFg, s._currentBg, s._currentAttr,
                            @.dirty)]
  ELSE s

putGlyph(s, c) ==
  IF inBounds(s)
  THEN [s EXCEPT !._buffer[_getIndex(s, s._cursorX, s._cursorY)] =
                   AnsiCell(c, s._currentFg, s._currentBg, s._currentAttr,
                            TRUE)]
  ELSE s

(* mutant: without wrapping the column is not clamped back to _width *)
advanceOnGlyph_noClamp(s) ==
  LET s1 == [s EXCEPT !._cursorX = (@ + 1) % UINT8]
  IN IF s1._cursorX > s1._width /\ s1._lineWrappingEnabled
     THEN nextLine([s1 EXCEPT !._cursorX = 1])
     ELSE s1

advanceOnGlyph(s) ==
  LET s1 == [s EXCEPT !._cursorX = (@ + 1) % UINT8]
  IN IF s1._cursorX > s1._width
     THEN IF s1._lineWrappingEnabled
          THEN nextLine([s1 EXCEPT !._cursorX = 1])
          ELSE [s1 EXCEPT !._cursorX = s1._width]
     ELSE s1

(* mutant: backspace decrements the column at column 1 as well *)
writeByte_backspaceUnguarded(s, c) ==
  IF c = NL THEN nextLine([s EXCEPT !._cursorX = 1])
  ELSE IF c = CR THEN [s EXCEPT !._cursorX = 1]
  ELSE IF c = BS THEN [s EXCEPT !._cursorX = (@ - 1) % UINT8]
  ELSE IF c >= 32 THEN advanceOnGlyph(putGlyph(s, c))
  ELSE s

(* the if / else-if chain on the byte *)
writeByte(s, c) ==
  IF c = NL THEN nextLine([s EXCEPT !._cursorX = 1])
  ELSE IF c = CR THEN [s EXCEPT !._cursorX = 1]
  ELSE IF c = BS
       THEN IF s._cursorX > 1 THEN [s EXCEPT !._cursorX = @ - 1] ELSE s
  ELSE IF c >= 32 THEN advanceOnGlyph(putGlyph(s, c))
  ELSE s

(* mutant: the degraded-instance guard is missing *)
write_unguarded(s, c) == [vt |-> writeByte(s, c), ret |-> 1]

(* mutant: a glyph dropped because the cursor is out of range returns 0 *)
write_countsStored(s, c) ==
  IF s._buffer = Null \/ s._width = 0 \/ s._height = 0
  THEN [vt |-> s, ret |-> 0]
  ELSE [vt |-> writeByte(s, c),
        ret |-> IF c >= 32 /\ ~inBounds(s) THEN 0 ELSE 1]

write(s, c) ==
  IF s._buffer = Null \/ s._width = 0 \/ s._height = 0
  THEN [vt |-> s, ret |-> 0]
  ELSE [vt |-> writeByte(s, c), ret |-> 1]

(* the while loop of print: write() on every byte in order, counting the   *)
(* non-zero returns; the first half of the string goes before the second,  *)
(* and on a null buffer every further write() would return 0               *)
RECURSIVE printLoop(_, _, _)
printLoop(s, str, count) ==
  IF str = <<>> THEN [vt |-> s, ret |-> count]
  ELSE IF Len(str) = 1
  THEN LET r == write(s, Head(str))
       IN [vt |-> r.vt, ret |-> IF r.ret # 0 THEN count + 1 ELSE count]
  ELSE LET half == Len(str) \div 2
           r == printLoop(s, SubSeq(str, 1, half), count)
       IN IF r.vt._buffer = Null THEN r
          ELSE printLoop(r.vt, SubSeq(str, half + 1, Len(str)), r.ret)

print(s, str) ==
  IF s._buffer = Null THEN [vt |-> s, ret |-> 0] ELSE printLoop(s, str, 0)

(* println of a string: the string, then a newline, every write counted;  *)
(* println() is the same with nothing before the newline                   *)
println(s, str) ==
  LET r == printLoop(s, str, 0)
      n == write(r.vt, NL)
  IN [vt |-> n.vt, ret |-> r.ret + n.ret]

(* ------------------------------- display ------------------------------ *)
(* mutant: all three style fields are sent for every cell *)
_updateCellAppearance_always(s, index) ==
  LET cell == s._buffer[index]
  IN [setTextBackgroundColor(
        setTextColor(setTextAttribute(s, cell.attributes), cell.fgColor),
        cell.bgColor)
      EXCEPT !._terminalAttr = cell.attributes,
             !._terminalFg = cell.fgColor,
             !._terminalBg = cell.bgColor]

_updateCellAppearance(s, index) ==
  LET cell == s._buffer[index]
      s1 == IF cell.attributes # s._terminalAttr
            THEN [setTextAttribute(s, cell.attributes) EXCEPT
                    !._terminalAttr = cell.attributes]
            ELSE s
      s2 == IF cell.fgColor # s1._terminalFg
            THEN [setTextColor(s1, cell.fgColor) EXCEPT
                    !._terminalFg = cell.fgColor]
            ELSE s1
  IN IF cell.bgColor # s2._terminalBg
     THEN [setTextBackgroundColor(s2, cell.bgColor) EXCEPT
             !._terminalBg = cell.bgColor]
     ELSE s2

(* the body shared by every paint loop: style, glyph, tracked column, flag *)
paintCell(s, index) ==
  LET s1 == _updateCellAppearance(s, index)
      s2 == outputWrite(s1, s1._buffer[index].character)
  IN [s2 EXCEPT !._terminalCursorX = (@ + 1) % UINT8,
                !._buffer[index].dirty = FALSE]

positionAt(s, col, y) ==
  [qANSI_setCursor(s, col, s._posY + y - 1) EXCEPT
     !._terminalCursorX = col % UINT8,
     !._terminalCursorY = (s._posY + y - 1) % UINT8]

(* mutant: the loop test is x < _width *)
RECURSIVE drawCells_stopsShort(_, _, _)
drawCells_stopsShort(s, y, x) ==
  IF x < s._width
  THEN drawCells_stopsShort(paintCell(s, _getIndex(s, x, y)), y,
                            (x + 1) % UINT8)
  ELSE s

(* for (uint8_t x = from; x <= _width; x++) *)
RECURSIVE drawCells(_, _, _)
drawCells(s, y, x) ==
  IF x <= s._width
  THEN drawCells(paintCell(s, _getIndex(s, x, y)), y, (x + 1) % UINT8)
  ELSE s

drawRow(s, y) == drawCells(positionAt(s, s._posX, y), y, 1)

(* for (uint8_t x = dirtyStart; x < scanPos; x++) *)
RECURSIVE drawSequence(_, _, _, _)
drawSequence(s, y, x, scanPos) ==
  IF x < scanPos
  THEN drawSequence(paintCell(s, _getIndex(s, x, y)), y, (x + 1) % UINT8,
                    scanPos)
  ELSE s

(* while (scanPos <= _width) of the sparse update *)
RECURSIVE scanRow(_, _, _, _)
scanRow(s, y, scanPos, dirtyStart0) ==
  IF scanPos <= s._width
  THEN LET isDirty == s._buffer[_getIndex(s, scanPos, y)].dirty
           dirtyStart == IF dirtyStart0 = 0 /\ isDirty THEN scanPos
                         ELSE dirtyStart0
       IN IF dirtyStart > 0 /\ (scanPos = s._width \/ ~isDirty)
          THEN scanRow(
                 drawSequence(positionAt(s, s._posX + dirtyStart - 1, y),
                              y, dirtyStart, scanPos),
                 y, (scanPos + 1) % UINT8, 0)
          ELSE scanRow(s, y, (scanPos + 1) % UINT8, dirtyStart)
  ELSE s

(* mutant: the first and last row get no special treatment *)
sparseRow_noBorder(s, y) == scanRow(s, y, 1, 0)

sparseRow(s, y) ==
  IF y = 1 \/ y = s._height THEN drawRow(s, y) ELSE scanRow(s, y, 1, 0)

(* analysis pass *)
rowHasDirty(s, y) ==
  \E x \in 1..s._width : s._buffer[_getIndex(s, x, y)].dirty

dirtyCount(s) == Cardinality({i \in DOMAIN s._buffer : s._buffer[i].dirty})

dirtyRows(s) == Cardinality({y \in 1..s._height : rowHasDirty(s, y)})

(* the largest power of two that is <= v, from e = 1 upwards *)
RECURSIVE floorPow2(_, _)
floorPow2(v, e) == IF 2 * e <= v THEN floorPow2(v, 2 * e) ELSE e

(* dirtyCount > _width * _height * 0.7. The product is a double. Where a   *)
(* double has 32 bits (AVR) the comparison agrees with exact arithmetic    *)
(* for every grid. Where it has 64 bits the literal 0.7 is 0.7 - 0.4/2^53; *)
(* the product differs from exact arithmetic only when width*height is a   *)
(* multiple 10*m of ten, the exact value 7*m being an integer: the error   *)
(* 4*m/2^53 then exceeds half a unit in the last place of 7*m when         *)
(* 4*m > floorPow2(7*m), the product rounds to the double below 7*m, and   *)
(* dirtyCount = 7*m compares greater.                                      *)
exceeds70(s, doubleBits) ==
  LET cells == s._width * s._height
      m == cells \div 10
  IN \/ dirtyCount(s) * 10 > cells * 7
     \/ /\ doubleBits = 64
        /\ cells % 10 = 0
        /\ 4 * m > floorPow2(7 * m, 1)
        /\ dirtyCount(s) = 7 * m

(* dirtyRows <= _height * 0.3, in exact arithmetic *)
within30(s) == dirtyRows(s) * 10 <= s._height * 3

(* which branch display() takes from state s *)
strategy(s, doubleBits) ==
  IF s._buffer = Null THEN "none"
  ELSE IF s._forceFullRedraw THEN "full"
  ELSE IF dirtyCount(s) = 0 THEN "none"
  ELSE IF exceeds70(s, doubleBits) THEN "full"
  ELSE IF within30(s) THEN "sparse"
  ELSE "rows"

(* for (uint8_t y = from; y <= _height; y++) of the three strategies;      *)
(* rowIsDirty is the array filled by the analysis pass                     *)
RECURSIVE drawRows(_, _, _, _)
drawRows(s, y, strat, rowIsDirty) ==
  IF y <= s._height
  THEN drawRows(IF strat = "full" THEN drawRow(s, y)
                ELSE IF ~rowIsDirty[y] THEN s
                ELSE IF strat = "sparse" THEN sparseRow(s, y)
                ELSE drawRow(s, y),
                (y + 1) % UINT8, strat, rowIsDirty)
  ELSE s

(* mutant: the cursor is positioned before it is hidden, too *)
finalize_alwaysRestores(s) ==
  LET s1 == qANSI_setCursor([s EXCEPT !._forceFullRedraw = FALSE],
                            s._posX + s._cursorX - 1,
                            s._posY + s._cursorY - 1)
  IN _sendAnsiCommand(s1, Cmd(IF s1._cursorVisible THEN "SHOW" ELSE "HIDE",
                              0, 0))

finalize(s) ==
  LET s1 == [s EXCEPT !._forceFullRedraw = FALSE]
  IN IF s1._cursorVisible
     THEN _sendAnsiCommand(
            qANSI_setCursor(s1, s1._posX + s1._cursorX - 1,
                            s1._posY + s1._cursorY - 1),
            Cmd("SHOW", 0, 0))
     ELSE _sendAnsiCommand(s1, Cmd("HIDE", 0, 0))

display(s, doubleBits) ==
  IF s._buffer = Null THEN s
  ELSE
    LET s1 == IF ~s._cursorVisible
              THEN _sendAnsiCommand(s, Cmd("HIDE", 0, 0)) ELSE s
        strat == strategy(s, doubleBits)
        rowIsDirty == [y \in 1..s._height |->
                         ~s._forceFullRedraw /\ rowHasDirty(s, y)]
    IN IF strat = "none" THEN s1
       ELSE
         LET s2 == [resetAttributes(
                      [s1 EXCEPT !._forceFullRedraw = (strat = "full")])
                    EXCEPT !._terminalAttr = RESET,
                           !._terminalFg = FG_DEFAULT,
                           !._terminalBg = BG_DEFAULT]
         IN finalize(drawRows(s2, 1, strat, rowIsDirty))

(* ---------------------- a grid with written cells ---------------------- *)
(* the application writes 'A' into one cell: setCursor, the three style    *)
(* setters, write                                                          *)
stampCell(s, x, y, style) ==
  write(setTextAttribute(
          setTextBackgroundColor(
            setTextColor(setCursor(s, x, y), style[1]), style[2]),
          style[3]),
        65).vt

(* the cells of a sequence, in order, the first half before the second *)
RECURSIVE stamp(_, _, _)
stamp(s, cells, map) ==
  IF cells = <<>> THEN s
  ELSE IF Len(cells) = 1
  THEN stampCell(s, cells[1][1], cells[1][2], StyleOf(map, cells[1][1]))
  ELSE LET half == Len(cells) \div 2
           s1 == stamp(s, SubSeq(cells, 1, half), map)
       IN IF s1._buffer = Null THEN s1
          ELSE stamp(s1, SubSeq(cells, half + 1, Len(cells)), map)

(* the cells of rows R and columns C, row by row *)
cellsOf(s, R, C) ==
  SelectSeq([k \in 1..(s._width * s._height) |->
               <<((k - 1) % s._width) + 1, ((k - 1) \div s._width) + 1>>],
            LAMBDA c : c[1] \in C /\ c[2] \in R)

(* a constructed instance after its first display(), with scrolling        *)
(* switched off, and then the cells of R x C written                       *)
written(a, R, C, map) ==
  LET s == setScrolling(
             display(qANSI_VT(a[1], a[2], a[3], a[4], TRUE), 64), FALSE)
  IN stamp(s, cellsOf(s, R, C), map)

(* ------------------------ loops, counter by counter -------------------- *)
(* pc is the position inside the row/column loops of the call in progress: *)
(* fn and stage name the loop nest, at tells whether control is at the     *)
(* test of the outer (row) loop or of the inner (column) loop, y and x are *)
(* the uint8_t counters. The loop bodies touch cells, shadow state and the *)
(* sink, never a counter, _width or _height.                               *)
Idle == [fn |-> "", stage |-> "idle", at |-> "outer", lines |-> 0,
         y |-> 0, x |-> 0]

(* grids on which the loops are followed: small ones and the widest and    *)
(* highest a uint8_t width and height allow                                *)
LoopSizes == {<<1, 1, 1, 1>>, <<2, 3, 1, 1>>, <<UINT8 - 2, 1, 1, 1>>,
              <<UINT8 - 1, 1, 1, 1>>, <<1, UINT8 - 1, 1, 1>>,
              <<2, UINT8 - 2, 1, 1>>}

(* entry of scrollUp(lines), lines > 0: the copy loop starts at y = 1 *)
enterScrollUp(s, lines) ==
  [fn |-> "scrollUp", stage |-> "copy", at |-> "outer",
   lines |-> min(lines, s._height), y |-> 1, x |-> 0]

(* entry of the loops of display(): the analysis pass unless a full redraw *)
(* is forced, then the full redraw                                         *)
enterDisplay(s) ==
  [fn |-> "display",
   stage |-> IF s._forceFullRedraw THEN "redraw" ELSE "analysis",
   at |-> "outer", lines |-> 0, y |-> 1, x |-> 0]

(* the right-hand side of the outer loop's test y <= ... *)
lastRow(s, p) == IF p.stage = "copy" THEN s._height - p.lines ELSE s._height

(* what follows a loop nest *)
afterLoop(s, p) ==
  IF p.stage = "copy"
  THEN [p EXCEPT !.stage = "blank",
                 !.y = (s._height - p.lines + 1) % UINT8]
  ELSE IF p.stage = "analysis"
  THEN [p EXCEPT !.stage = "redraw", !.y = 1]
  ELSE [p EXCEPT !.stage = "done"]

(* the test of for (uint8_t y = ...; y <= ...; y++) *)
rowTest(s, p) ==
  IF p.y <= lastRow(s, p) THEN [p EXCEPT !.at = "inner", !.x = 1]
  ELSE afterLoop(s, p)

(* the test, body and increment of for (uint8_t x = 1; x <= _width; x++),  *)
(* and the y++ that follows its exit                                       *)
columnStep(s, p) ==
  IF p.x <= s._width THEN [p EXCEPT !.x = (@ + 1) % UINT8]
  ELSE [p EXCEPT !.at = "outer", !.y = (@ + 1) % UINT8]

(* ------------------------------- actions ------------------------------- *)
(* every public call starts with an empty record of what it emitted *)
Call(s) == [s EXCEPT !._output = <<>>, !.scrollLog = <<>>]

(* ------------------------- the physical screen ------------------------- *)
(* What the terminal behind the sink shows: cells maps a position          *)
(* <<column, row>> to the glyph stored there, blank is what every other    *)
(* position shows, cur is the terminal's cursor. A positioning moves the   *)
(* cursor, a glyph is stored at the cursor, which advances one column,     *)
(* erase-display blanks every position. Only a screen that is on is kept   *)
(* up to date.                                                             *)
NoScreen ==
  [on |-> FALSE, cells |-> <<>>, blank |-> Indeterminate, cur |-> <<1, 1>>]

UnknownScreen == [NoScreen EXCEPT !.on = TRUE]

ScreenCmd(sc, c) ==
  IF c.cmd = "CUP" THEN [sc EXCEPT !.cur = <<c.b, c.a>>]
  ELSE IF c.cmd = "CH"
  THEN [sc EXCEPT !.cells = [p \in DOMAIN @ \cup {sc.cur} |->
                               IF p = sc.cur THEN c.a ELSE @[p]],
                  !.cur = <<@[1] + 1, @[2]>>]
  ELSE IF c.cmd = "ED" THEN [sc EXCEPT !.cells = <<>>, !.blank = SPACE]
  ELSE sc

(* the commands out[lo..hi] in order, the first half before the second *)
RECURSIVE ScreenAfter(_, _, _, _)
ScreenAfter(sc, out, lo, hi) ==
  IF lo > hi THEN sc
  ELSE IF lo = hi THEN ScreenCmd(sc, out[lo])
  ELSE LET mid == (lo + hi) \div 2
           sc1 == ScreenAfter(sc, out, lo, mid)
       IN IF ~sc1.on THEN sc1 ELSE ScreenAfter(sc1, out, mid + 1, hi)

ScreenAt(sc, p) == IF p \in DOMAIN sc.cells THEN sc.cells[p] ELSE sc.blank

(* op is the call just made: its name, its arguments and the cursor it    *)
(* found; ret is what the call returned; prev is the call before it, by   *)
(* name and return value                                                   *)
Done(name, args, r) ==
  /\ op' = [name |-> name, args |-> args, at |-> <<vt._cursorX, vt._cursorY>>]
  /\ prev' = [name |-> op.name, ret |-> ret]
  /\ ret' = r
  /\ steps' = steps + 1
  /\ pc' = pc
  /\ screen' = IF screen.on
               THEN ScreenAfter(screen, vt'._output, 1, Len(vt'._output))
               ELSE screen
  /\ ansi' = ansi

Init ==
  /\ \E a \in Sizes, allocOk \in BOOLEAN :
       /\ vt = qANSI_VT(a[1], a[2], a[3], a[4], allocOk)
       /\ op = [name |-> "qANSI_VT", args |-> <<a[1], a[2], allocOk>>,
                at |-> <<1, 1>>]
  /\ prev = [name |-> "", ret |-> 0]
  /\ ret = 0
  /\ steps = 0
  /\ pc = Idle
  /\ screen = NoScreen
  /\ ansi = qANSI

Write ==
  /\ steps < MaxSteps
  /\ \E c \in Bytes :
    LET r == write(Call(vt), c)
    IN vt' = r.vt /\ Done("write", <<c>>, r.ret)

PrintStr ==
  /\ steps < MaxSteps
  /\ \E str \in Strings :
    LET r == print(Call(vt), str)
    IN vt' = r.vt /\ Done("print", <<str>>, r.ret)

(* the long string is printed while scrolling is disabled, where each of   *)
(* its newlines moves the cursor row and nothing else                      *)
PrintLong ==
  /\ steps < MaxSteps
  /\ ~vt._scrollEnabled
  /\ \E str \in LongTexts :
       LET r == print(Call(vt), str)
       IN vt' = r.vt /\ Done("print", <<str>>, r.ret)

Println ==
  /\ steps < MaxSteps
  /\ \E str \in Lines :
    LET r == println(Call(vt), str)
    IN vt' = r.vt /\ Done("println", <<str>>, r.ret)

SetCursor ==
  /\ steps < MaxSteps
  /\ \E a \in Coords(vt) :
    vt' = setCursor(Call(vt), a[1], a[2]) /\ Done("setCursor", a, 0)

GetCharAt ==
  /\ steps < MaxSteps
  /\ \E a \in Coords(vt) :
    vt' = Call(vt) /\ Done("getCharAt", a, getCharAt(vt, a[1], a[2]))

ScrollUp ==
  /\ steps < MaxSteps
  /\ \E lines \in ScrollArgs :
    vt' = scrollUp(Call(vt), lines) /\ Done("scrollUp", <<lines>>, 0)

Clear ==
  /\ steps < MaxSteps
  /\ \E clearPhysical \in BOOLEAN :
    vt' = clear(Call(vt), clearPhysical) /\ Done("clear", <<clearPhysical>>, 0)

Begin ==
  /\ steps < MaxSteps
  /\ \E a \in BeginArgs :
    vt' = begin(Call(vt), a[1], a[2]) /\ Done("begin", a, 0)

Display ==
  /\ steps < MaxSteps
  /\ \E doubleBits \in DoubleBits :
    vt' = display(Call(vt), doubleBits) /\ Done("display", <<>>, 0)

ForceFullRedraw ==
  steps < MaxSteps /\ vt' = forceFullRedraw(Call(vt)) /\ Done("forceFullRedraw", <<>>, 0)

SetScrolling ==
  /\ steps < MaxSteps
  /\ \E enabled \in BOOLEAN :
    vt' = setScrolling(Call(vt), enabled) /\ Done("setScrolling", <<enabled>>, 0)

SetLineWrapping ==
  /\ steps < MaxSteps
  /\ \E enabled \in BOOLEAN :
    /\ vt' = setLineWrapping(Call(vt), enabled)
    /\ Done("setLineWrapping", <<enabled>>, 0)

SetCursorVisible ==
  /\ steps < MaxSteps
  /\ \E visible \in BOOLEAN :
    /\ vt' = setCursorVisible(Call(vt), visible)
    /\ Done("setCursorVisible", <<visible>>, 0)

SetTextColor ==
  /\ steps < MaxSteps
  /\ \E fg \in FgColors :
    vt' = setTextColor(Call(vt), fg) /\ Done("setTextColor", <<fg>>, 0)

SetTextBackgroundColor ==
  /\ steps < MaxSteps
  /\ \E bg \in BgColors :
    /\ vt' = setTextBackgroundColor(Call(vt), bg)
    /\ Done("setTextBackgroundColor", <<bg>>, 0)

SetTextAttribute ==
  /\ steps < MaxSteps
  /\ \E attr \in Attrs :
    vt' = setTextAttribute(Call(vt), attr) /\ Done("setTextAttribute", <<attr>>, 0)

SetPosition ==
  /\ steps < MaxSteps
  /\ \E a \in Origins :
    vt' = setPosition(Call(vt), a[1], a[2]) /\ Done("setPosition", a, 0)

Next ==
  \/ Write \/ PrintStr \/ SetCursor \/ GetCharAt \/ ScrollUp \/ Clear \/ Begin
  \/ Display \/ ForceFullRedraw \/ SetScrolling \/ SetLineWrapping \/ SetCursorVisible
  \/ SetTextColor \/ SetTextBackgroundColor \/ SetTextAttribute
  \/ SetPosition

Spec == Init /\ [][Next]_vars

(* the calls that work on the in-memory grid, long strings included, and   *)
(* display()                                                               *)
NextGrid ==
  \/ Write \/ PrintStr \/ PrintLong \/ Println \/ SetCursor \/ ScrollUp
  \/ Clear \/ Begin \/ ForceFullRedraw \/ SetScrolling \/ SetLineWrapping
  \/ Display

SpecGrid == Init /\ [][NextGrid]_vars

(* the calls that change what the grid holds or where it is shown, and     *)
(* display(), in front of a terminal whose screen is followed              *)
InitScreen ==
  /\ \E a \in Sizes, allocOk \in BOOLEAN :
       /\ vt = qANSI_VT(a[1], a[2], a[3], a[4], allocOk)
       /\ op = [name |-> "qANSI_VT", args |-> <<a[1], a[2], allocOk>>,
                at |-> <<1, 1>>]
  /\ prev = [name |-> "", ret |-> 0]
  /\ ret = 0
  /\ steps = 0
  /\ pc = Idle
  /\ screen = UnknownScreen
  /\ ansi = qANSI

NextScreen ==
  \/ Write \/ PrintStr \/ SetCursor \/ ScrollUp \/ Clear \/ Begin
  \/ Display \/ ForceFullRedraw \/ SetPosition

SpecScreen == InitScreen /\ [][NextScreen]_vars

(* a qANSI instance of its own: bytes written through the pipe codes, and  *)
(* the codes switched on and off                                           *)
InitPipe ==
  /\ vt = qANSI_VT(1, 1, 1, 1, TRUE)
  /\ op = [name |-> "qANSI", args |-> <<>>, at |-> <<1, 1>>]
  /\ prev = [name |-> "", ret |-> 0]
  /\ ret = 0
  /\ steps = 0
  /\ pc = Idle
  /\ screen = NoScreen
  /\ ansi = qANSI

DonePipe(name, args, r) ==
  /\ op' = [name |-> name, args |-> args, at |-> <<1, 1>>]
  /\ prev' = [name |-> op.name, ret |-> ret]
  /\ ret' = r
  /\ steps' = steps + 1
  /\ UNCHANGED <<vt, pc, screen>>

PipeWrite ==
  /\ steps < MaxBytes
  /\ \E c \in PipeBytes :
       LET r == qANSI_write(ansi, c)
       IN ansi' = r.vt /\ DonePipe("qANSI::write", <<c>>, r.ret)

EnablePipeCodes ==
  /\ steps < MaxBytes
  /\ \E enable \in BOOLEAN :
       /\ ansi' = enablePipeCodes(ansi, enable)
       /\ DonePipe("enablePipeCodes", <<enable>>, 0)

NextPipe == PipeWrite \/ EnablePipeCodes

SpecPipe == InitPipe /\ [][NextPipe]_vars

(* the renderer on grids in which the application has written cells *)
InitRender ==
  /\ \E a \in RenderSizes, map \in StyleMaps :
       \E R \in Parts(a[2]), C \in Parts(a[1]) :
         vt = Call(written(a, R, C, map))
  /\ op = [name |-> "", args |-> <<>>, at |-> <<1, 1>>]
  /\ prev = [name |-> "", ret |-> 0]
  /\ ret = 0
  /\ steps = 0
  /\ pc = Idle
  /\ screen = NoScreen
  /\ ansi = qANSI

NextRender == Display \/ ForceFullRedraw \/ SetCursorVisible

SpecRender == InitRender /\ [][NextRender]_vars

(* one call of scrollUp or display on a fresh or a displayed instance,     *)
(* followed loop step by loop step                                         *)
InitLoops ==
  /\ \E a \in LoopSizes, forced \in BOOLEAN :
       LET s == [qANSI_VT(a[1], a[2], a[3], a[4], TRUE)
                   EXCEPT !._forceFullRedraw = forced]
       IN /\ vt = s
          /\ op = [name |-> "qANSI_VT", args |-> <<a[1], a[2], TRUE>>,
                   at |-> <<1, 1>>]
          /\ pc \in {enterDisplay(s)} \cup
                     {enterScrollUp(s, lines) : lines \in ScrollArgs \ {0}}
  /\ prev = [name |-> "", ret |-> 0]
  /\ ret = 0
  /\ steps = 0
  /\ screen = NoScreen
  /\ ansi = qANSI

RowTest ==
  /\ pc.stage \notin {"idle", "done"} /\ pc.at = "outer"
  /\ pc' = rowTest(vt, pc)
  /\ UNCHANGED <<vt, op, prev, ret, steps, screen, ansi>>

ColumnStep ==
  /\ pc.stage \notin {"idle", "done"} /\ pc.at = "inner"
  /\ pc' = columnStep(vt, pc)
  /\ UNCHANGED <<vt, op, prev, ret, steps, screen, ansi>>

NextLoops == RowTest \/ ColumnStep

(* the call runs on: a single thread executes it with nothing to wait for *)
SpecLoops == InitLoops /\ [][NextLoops]_vars /\ WF_vars(NextLoops)

(* ------------------------- vocabulary of claims ------------------------ *)
Degraded(s) == s._buffer = Null

(* the cell at 1-based (x, y) of a non-degraded instance *)
CellAt(s, x, y) == s._buffer[(y - 1) * s._width + (x - 1)]

NoDirty(s) == \A i \in DOMAIN s._buffer : ~s._buffer[i].dirty

(* the glyph bytes, the positionings and the style commands of an output *)
Glyphs(out) == SelectSeq(out, LAMBDA c : c.cmd = "CH")
Positionings(out) == SelectSeq(out, LAMBDA c : c.cmd = "CUP")
StyleCmds(out) == SelectSeq(out, LAMBDA c : c.cmd = "SGR")

(* C1: after display() on a non-degraded instance every cell's dirty flag  *)
(* is false, whatever was dirty and whichever strategy display() chose.    *)
C1_CleanAfterDisplay ==
  (op.name = "display" /\ ~Degraded(vt)) => NoDirty(vt)

(* C2: a display() right after a display() sends nothing to the sink, and  *)
(* display() sends nothing whenever no cell is dirty and no full redraw is *)
(* forced, with the cursor visible or hidden.                              *)
C2_IdleDisplaySilent ==
  [][(/\ op'.name = "display"
      /\ \/ op.name = "display"
         \/ NoDirty(vt) /\ ~vt._forceFullRedraw)
     => vt'._output = <<>>]_vars

PrintableByte(c) == c >= SPACE

RowInGrid(s) == s._cursorY >= 1 /\ s._cursorY <= s._height

(* glyph and style of every cell agree (dirty flags aside) *)
SameContent(b1, b2) ==
  \A i \in DOMAIN b1 :
    /\ b1[i].character = b2[i].character
    /\ b1[i].fgColor = b2[i].fgColor
    /\ b1[i].bgColor = b2[i].bgColor
    /\ b1[i].attributes = b2[i].attributes

(* the step is print() of exactly width glyphs, begun at column 1 *)
PrintsFullRow ==
  /\ ~Degraded(vt)
  /\ op'.name = "print"
  /\ Len(op'.args[1]) = vt._width
  /\ vt._cursorX = 1

(* the step is a printable write() that follows print() of width glyphs    *)
(* begun at column 1, all with line wrapping disabled                      *)
WritesPastFullRow ==
  /\ ~Degraded(vt)
  /\ ~vt._lineWrappingEnabled
  /\ op.name = "print" /\ Len(op.args[1]) = vt._width /\ op.at[1] = 1
  /\ op'.name = "write" /\ PrintableByte(op'.args[1])

(* C3 as stated: with wrapping disabled, width glyphs from column 1 pin    *)
(* the cursor at column width; a further printable write() changes no      *)
(* cell's glyph or style, leaves the cursor at column width and returns 1. *)
C3_OverflowGlyphDropped ==
  [][/\ (PrintsFullRow /\ ~vt._lineWrappingEnabled)
          => vt'._cursorX = vt._width
     /\ WritesPastFullRow
          => /\ SameContent(vt._buffer, vt'._buffer)
             /\ vt'._cursorX = vt._width
             /\ ret' = 1]_vars

(* C3 amended: with wrapping disabled, width glyphs from column 1 pin the  *)
(* cursor at column width; a further printable write() overwrites the cell *)
(* at column width of the cursor row with the new glyph in the current     *)
(* style and marks it dirty (no cell changes when the cursor row is        *)
(* outside the grid), changes no other cell, leaves the cursor at column   *)
(* width of the same row and returns 1.                                    *)
C3_OverflowGlyphOverwrites ==
  [][/\ (PrintsFullRow /\ ~vt._lineWrappingEnabled)
          => vt'._cursorX = vt._width
     /\ WritesPastFullRow
          => /\ vt'._buffer =
                  IF RowInGrid(vt)
                  THEN [vt._buffer EXCEPT
                          ![(vt._cursorY - 1) * vt._width + vt._width - 1] =
                            AnsiCell(op'.args[1], vt._currentFg,
                                     vt._currentBg, vt._currentAttr, TRUE)]
                  ELSE vt._buffer
             /\ vt'._cursorX = vt._width
             /\ vt'._cursorY = vt._cursorY
             /\ ret' = 1]_vars

(* a further glyph has replaced the last glyph of a full row *)
C3_Witness ==
  /\ ~Degraded(vt) /\ ~vt._lineWrappingEnabled
  /\ vt._width >= 2
  /\ prev.name = "print" /\ prev.ret = vt._width
  /\ op.name = "write" /\ PrintableByte(op.args[1])
  /\ op.at = <<vt._width, 1>>
  /\ \A x \in 1..(vt._width - 1) :
       CellAt(vt, x, 1).character = Text(vt._width)[x]
  /\ CellAt(vt, vt._width, 1).character = op.args[1]
  /\ CellAt(vt, vt._width, 1).character # Text(vt._width)[vt._width]
  /\ vt._cursorX = vt._width
  /\ ret = 1

(* C4: with wrapping enabled and the cursor at (1,r), writing exactly      *)
(* width printable glyphs fills row r and leaves the cursor at (1,r+1)     *)
(* when r < height; when r = height and scrolling is enabled it calls      *)
(* scrollUp(1) exactly once and leaves the cursor at (1,height).           *)
C4_FullRowWraps ==
  [][(PrintsFullRow /\ vt._lineWrappingEnabled /\ RowInGrid(vt))
     => IF vt._cursorY < vt._height
        THEN /\ \A x \in 1..vt._width :
                  CellAt(vt', x, vt._cursorY).character = op'.args[1][x]
             /\ vt'._cursorX = 1
             /\ vt'._cursorY = vt._cursorY + 1
             /\ vt'.scrollLog = <<>>
        ELSE vt._scrollEnabled
             => /\ vt'.scrollLog = <<1>>
                /\ vt'._cursorX = 1
                /\ vt'._cursorY = vt._height
                /\ vt._height > 1
                     => \A x \in 1..vt._width :
                          CellAt(vt', x, vt._height - 1).character
                            = op'.args[1][x]]_vars

(* a full row printed on the last row has scrolled the grid once *)
C4_Witness ==
  /\ ~Degraded(vt) /\ vt._lineWrappingEnabled /\ vt._scrollEnabled
  /\ vt._width >= 2 /\ vt._height >= 2
  /\ op.name = "print" /\ Len(op.args[1]) = vt._width
  /\ op.at = <<1, vt._height>>
  /\ vt.scrollLog = <<1>>
  /\ vt._cursorX = 1 /\ vt._cursorY = vt._height
  /\ CellAt(vt, 2, vt._height - 1).character = op.args[1][2]

(* C5: scrollUp(n), n >= 1, with m = min(n, height): what was at row k,    *)
(* m < k <= height, is at row k-m (glyph, foreground, background and       *)
(* attributes); the bottom m rows are blank in the current write style;    *)
(* every cell is dirty; the cursor is unchanged.                           *)
C5_ScrollUpShifts ==
  [][(~Degraded(vt) /\ op'.name = "scrollUp" /\ op'.args[1] >= 1)
     => LET m == min(op'.args[1], vt._height)
        IN /\ \A x \in 1..vt._width :
                /\ \A k \in (m + 1)..vt._height :
                     /\ CellAt(vt', x, k - m).character
                          = CellAt(vt, x, k).character
                     /\ CellAt(vt', x, k - m).fgColor = CellAt(vt, x, k).fgColor
                     /\ CellAt(vt', x, k - m).bgColor = CellAt(vt, x, k).bgColor
                     /\ CellAt(vt', x, k - m).attributes
                          = CellAt(vt, x, k).attributes
                /\ \A k \in (vt._height - m + 1)..vt._height :
                     /\ CellAt(vt', x, k).character = SPACE
                     /\ CellAt(vt', x, k).fgColor = vt._currentFg
                     /\ CellAt(vt', x, k).bgColor = vt._currentBg
                     /\ CellAt(vt', x, k).attributes = vt._currentAttr
           /\ \A i \in DOMAIN vt'._buffer : vt'._buffer[i].dirty
           /\ vt'._cursorX = vt._cursorX
           /\ vt'._cursorY = vt._cursorY
           /\ vt'._currentFg = vt._currentFg
           /\ vt'._currentBg = vt._currentBg
           /\ vt'._currentAttr = vt._currentAttr]_vars

(* scrollUp(1) has moved a styled glyph up into the first row *)
C5_Witness ==
  /\ ~Degraded(vt) /\ vt._height >= 3
  /\ op.name = "scrollUp" /\ op.args[1] = 1
  /\ \E x \in 1..vt._width :
       /\ CellAt(vt, x, 1).character # SPACE
       /\ <<CellAt(vt, x, 1).fgColor, CellAt(vt, x, 1).bgColor,
            CellAt(vt, x, 1).attributes>> # <<FG_DEFAULT, BG_DEFAULT, RESET>>
  /\ CellAt(vt, 1, vt._height).character = SPACE

(* the positionings and glyphs of a repaint of all rows y of a set, each   *)
(* row as one positioning to its first column followed by its width glyphs *)
RowPaint(s, y) ==
  <<Cmd("CUP", (s._posY + y - 1) % UINT8, s._posX % UINT8)>>
    \o [x \in 1..s._width |-> Cmd("CH", CellAt(s, x, y).character, 0)]

RECURSIVE RowsPaint(_, _)
RowsPaint(s, y) ==
  IF y > s._height THEN <<>> ELSE RowPaint(s, y) \o RowsPaint(s, y + 1)

(* the positioning that ends a painting display() when the cursor is shown *)
CursorRestore(s) ==
  IF s._cursorVisible
  THEN <<Cmd("CUP", (s._posY + s._cursorY - 1) % UINT8,
             (s._posX + s._cursorX - 1) % UINT8)>>
  ELSE <<>>

PaintCmds(out) == SelectSeq(out, LAMBDA c : c.cmd \in {"CUP", "CH"})

(* C6: forceFullRedraw() followed by display() writes exactly width*height *)
(* glyphs: every cell once, row by row, left to right, with one cursor     *)
(* positioning at the start of each row (then the closing cursor restore). *)
C6_ForcedRedrawPaintsAll ==
  [][(~Degraded(vt) /\ op.name = "forceFullRedraw" /\ op'.name = "display")
     => /\ PaintCmds(vt'._output) = RowsPaint(vt, 1) \o CursorRestore(vt)
        /\ Len(Glyphs(vt'._output)) = vt._width * vt._height]_vars

(* a forced redraw of a grid of several rows and columns has been painted *)
C6_Witness ==
  /\ ~Degraded(vt) /\ vt._width >= 2 /\ vt._height >= 2
  /\ prev.name = "forceFullRedraw" /\ op.name = "display"
  /\ Len(Glyphs(vt._output)) = vt._width * vt._height
  /\ Len(Positionings(vt._output)) = vt._height + 1

InGrid(s, col, row) ==
  col >= 1 /\ col <= s._width /\ row >= 1 /\ row <= s._height

(* C7 as stated: getCharAt(col,row) on a non-degraded instance returns the *)
(* glyph stored at (clamp(col,1,width), clamp(row,1,height)).              *)
C7_GetCharAtClamps ==
  (~Degraded(vt) /\ op.name = "getCharAt")
  => ret = CellAt(vt, constrain(op.args[1], 1, vt._width),
                  constrain(op.args[2], 1, vt._height)).character

(* C7 amended: getCharAt(col,row) on a non-degraded instance returns the   *)
(* glyph stored at (col,row) when 1 <= col <= width and 1 <= row <= height *)
(* and a space for every coordinate outside the grid; it changes no cell.  *)
C7_GetCharAtInGridOrSpace ==
  [][(~Degraded(vt) /\ op'.name = "getCharAt")
     => /\ ret' = IF InGrid(vt, op'.args[1], op'.args[2])
                  THEN CellAt(vt, op'.args[1], op'.args[2]).character
                  ELSE SPACE
        /\ vt'._buffer = vt._buffer]_vars

(* a coordinate beyond the grid was answered with a space although the     *)
(* clamped cell holds a glyph                                              *)
C7_Witness ==
  /\ ~Degraded(vt) /\ op.name = "getCharAt"
  /\ ~InGrid(vt, op.args[1], op.args[2])
  /\ CellAt(vt, constrain(op.args[1], 1, vt._width),
            constrain(op.args[2], 1, vt._height)).character # SPACE
  /\ ret = SPACE

DefaultStyle(s) ==
  /\ s._currentFg = FG_DEFAULT /\ s._currentBg = BG_DEFAULT
  /\ s._currentAttr = RESET
  /\ \A i \in DOMAIN s._buffer :
       /\ s._buffer[i].fgColor = FG_DEFAULT
       /\ s._buffer[i].bgColor = BG_DEFAULT
       /\ s._buffer[i].attributes = RESET

(* the step is print() of k < width glyphs begun at (1,1), default style *)
PrintsAtHome ==
  /\ ~Degraded(vt) /\ DefaultStyle(vt)
  /\ vt._cursorX = 1 /\ vt._cursorY = 1
  /\ op'.name = "print" /\ Len(op'.args[1]) < vt._width

(* the step is the display() that follows such a print() *)
DisplaysAfterPrintAtHome ==
  /\ ~Degraded(vt) /\ DefaultStyle(vt)
  /\ op.name = "print" /\ op.at = <<1, 1>> /\ Len(op.args[1]) < vt._width
  /\ op'.name = "display"

PrintedAtHome ==
  /\ vt'._cursorX = Len(op'.args[1]) + 1
  /\ vt'._cursorY = 1
  /\ \A x \in 1..Len(op'.args[1]) :
       CellAt(vt', x, 1).character = op'.args[1][x]

(* the k written cells are the only dirty ones and no redraw is pending *)
OnlyPrintedDirty ==
  /\ ~vt._forceFullRedraw
  /\ \A x \in 1..vt._width, y \in 1..vt._height :
       CellAt(vt, x, y).dirty <=> (y = 1 /\ x <= Len(op.args[1]))

(* C8 as stated: k < width glyphs written at (1,1) in the default style    *)
(* leave the cursor at (k+1,1) and the glyphs in cells (1,1)..(k,1); the   *)
(* following display() issues exactly one cursor positioning, to the       *)
(* origin, exactly k glyph writes and no style command.                    *)
C8_DisplayWritesOnlyPrinted ==
  [][/\ PrintsAtHome => PrintedAtHome
     /\ DisplaysAfterPrintAtHome
          => /\ Positionings(vt'._output)
                  = <<Cmd("CUP", vt._posY, vt._posX)>>
             /\ Glyphs(vt'._output)
                  = [x \in 1..Len(op.args[1]) |-> Cmd("CH", op.args[1][x], 0)]
             /\ StyleCmds(vt'._output) = <<>>]_vars

(* C8 amended: k < width glyphs written at (1,1) in the default style      *)
(* leave the cursor at (k+1,1) and the glyphs in cells (1,1)..(k,1); the   *)
(* following display() starts with the attribute reset ESC[0m, its only    *)
(* style command, then positions the cursor at the origin and writes the   *)
(* whole first row (the k glyphs and the rest of the row, width glyph      *)
(* writes); when the k cells were the only dirty ones and no full redraw   *)
(* was pending it writes nothing else but the closing cursor restore to    *)
(* (origin_x + k, origin_y), otherwise it goes on to repaint further rows. *)
C8_DisplayRepaintsFirstRow ==
  [][/\ PrintsAtHome => PrintedAtHome
     /\ DisplaysAfterPrintAtHome
          => /\ StyleCmds(vt'._output) = <<Cmd("SGR", 0, 0)>>
             /\ Len(PaintCmds(vt'._output)) > vt._width
             /\ SubSeq(PaintCmds(vt'._output), 1, vt._width + 1)
                  = RowPaint(vt, 1)
             /\ \A x \in 1..Len(op.args[1]) :
                  CellAt(vt, x, 1).character = op.args[1][x]
             /\ OnlyPrintedDirty
                  => /\ PaintCmds(vt'._output)
                          = RowPaint(vt, 1) \o CursorRestore(vt)
                     /\ vt._cursorVisible
                          => Positionings(vt'._output)[2]
                               = Cmd("CUP", vt._posY,
                                     vt._posX + Len(op.args[1]))]_vars

(* two glyphs printed at (1,1) of a clean grid of several rows were shown  *)
(* by repainting the first row alone                                       *)
C8_Witness ==
  /\ ~Degraded(vt) /\ vt._width >= 3 /\ vt._height >= 2
  /\ prev.name = "print" /\ prev.ret = 2
  /\ op.name = "display" /\ op.at = <<3, 1>>
  /\ CellAt(vt, 1, 1).character = Text(2)[1]
  /\ CellAt(vt, 2, 1).character = Text(2)[2]
  /\ Len(Glyphs(vt._output)) = vt._width
  /\ Len(Positionings(vt._output)) = 2
  /\ StyleCmds(vt._output) = <<Cmd("SGR", 0, 0)>>

(* C9: an instance constructed with width = 0 or height = 0 (or whose      *)
(* allocation failed) is degraded: width() = height() = 0, and from then   *)
(* on write() and print() return 0, display() sends nothing, and begin,    *)
(* clear, setCursor and scrollUp change no grid or cursor state and send   *)
(* nothing.                                                                *)
C9_DegradedIsInert ==
  /\ []((op.name = "qANSI_VT"
          /\ (op.args[1] = 0 \/ op.args[2] = 0 \/ ~op.args[3]))
        => (Degraded(vt) /\ vt._width = 0 /\ vt._height = 0))
  /\ [][Degraded(vt)
        => /\ Degraded(vt') /\ vt'._width = 0 /\ vt'._height = 0
           /\ op'.name \in {"write", "print"} => ret' = 0
           /\ op'.name \in {"write", "print", "display", "begin", "clear",
                             "setCursor", "scrollUp"}
                => /\ vt'._output = <<>>
                   /\ vt'._cursorX = vt._cursorX
                   /\ vt'._cursorY = vt._cursorY
                   /\ vt'._forceFullRedraw = vt._forceFullRedraw]_vars

(* the first write() on an instance constructed degraded returned 0 *)
C9_Witness ==
  /\ prev.name = "qANSI_VT"
  /\ Degraded(vt) /\ vt._width = 0 /\ vt._height = 0
  /\ op.name = "write" /\ ret = 0 /\ vt._output = <<>>

(* C10: on a non-degraded instance write() returns 1 for every byte in     *)
(* every reachable state, whether or not a cell was mutated, and print()   *)
(* returns the length of its string.                                       *)
C10_WriteAlwaysConsumes ==
  ~Degraded(vt)
  => /\ op.name = "write" => ret = 1
     /\ op.name = "print" => ret = Len(op.args[1])

(* a glyph written with the cursor below the grid was dropped, and counted *)
C10_Witness ==
  /\ ~Degraded(vt) /\ ~vt._scrollEnabled
  /\ op.name = "write" /\ PrintableByte(op.args[1])
  /\ op.at[2] > vt._height
  /\ ret = 1

(* calls that hand bytes to write() *)
WriteCalls == {"write", "print", "println"}

(* C11: with scrolling disabled and the cursor row past height, no write() *)
(* call or run of write() calls (print, println), whatever its bytes and   *)
(* its length, changes a cell or a dirty flag or brings the cursor row     *)
(* back into the grid.                                                     *)
C11_PushedOutStaysOut ==
  [][(/\ ~Degraded(vt) /\ ~vt._scrollEnabled
      /\ vt._cursorY > vt._height
      /\ op'.name \in WriteCalls)
     => /\ vt'._buffer = vt._buffer
        /\ vt'._cursorY > vt'._height]_vars

(* C13: setCursor(col,row): with wrapping enabled and col > width the row  *)
(* grows by (col-1)/width as an integer and the column becomes             *)
(* ((col-1) mod width)+1; with scrolling enabled and that row > height the *)
(* grid is scrolled up once, by the excess, and the row becomes height;    *)
(* the cursor ends at the clamped column and row, inside the grid.         *)
C13_SetCursorFoldsAndScrolls ==
  [][(~Degraded(vt) /\ op'.name = "setCursor")
     => LET col == op'.args[1]
            row == op'.args[2]
            wrap == vt._lineWrappingEnabled /\ col > vt._width
            row1 == IF wrap THEN row + ((col - 1) \div vt._width) ELSE row
            col1 == IF wrap THEN ((col - 1) % vt._width) + 1 ELSE col
            scroll == vt._scrollEnabled /\ row1 > vt._height
            row2 == IF scroll THEN vt._height ELSE row1
        IN /\ Len(vt'.scrollLog) = IF scroll THEN 1 ELSE 0
           /\ vt'._buffer =
                IF scroll THEN scrollUp(vt, row1 - vt._height)._buffer
                ELSE vt._buffer
           /\ vt'._cursorX = constrain(col1, 1, vt._width)
           /\ vt'._cursorY = constrain(row2, 1, vt._height)
           /\ inBounds(vt')]_vars

(* C14: whenever scrolling is enabled the logical cursor is inside the     *)
(* grid, after any sequence of public calls.                               *)
C14_CursorInGridWhileScrolling ==
  (~Degraded(vt) /\ vt._scrollEnabled) => inBounds(vt)

(* the calls that work on the in-memory grid only *)
SilentCall ==
  \/ op'.name \in {"write", "print", "println", "setCursor", "scrollUp",
                   "setLineWrapping", "setScrolling", "forceFullRedraw"}
  \/ op'.name = "clear" /\ ~op'.args[1]

(* C15: write, print, println, setCursor, scrollUp, setLineWrapping,       *)
(* setScrolling, forceFullRedraw and clear(false) send nothing to the      *)
(* sink, while begin, clear(true) and a display() of a grid with dirty     *)
(* cells do.                                                               *)
C15_GridCallsAreSilent ==
  [][/\ SilentCall => vt'._output = <<>>
     /\ (/\ ~Degraded(vt)
         /\ \/ op'.name = "begin"
            \/ op'.name = "clear" /\ op'.args[1]
            \/ op'.name = "display" /\ ~NoDirty(vt))
        => vt'._output # <<>>]_vars

(* setCursor beyond the last row has scrolled the grid and sent nothing *)
C15_Witness ==
  /\ ~Degraded(vt) /\ vt._height >= 2
  /\ op.name = "setCursor" /\ op.args[2] = vt._height + 1
  /\ vt.scrollLog = <<1>> /\ vt._forceFullRedraw
  /\ \A i \in DOMAIN vt._buffer : vt._buffer[i].dirty
  /\ vt._output = <<>>

(* C12: every call of scrollUp and display terminates, on every grid with  *)
(* width and height in 1..255, the widest and the highest included.        *)
C12_LoopsTerminate == <>(pc.stage = "done")

DirtyCells(s) == {i \in DOMAIN s._buffer : s._buffer[i].dirty}

DirtyRowSet(s) ==
  {y \in 1..s._height : \E x \in 1..s._width : CellAt(s, x, y).dirty}

(* the step is a display() that has something to paint *)
DisplayPaints ==
  /\ ~Degraded(vt) /\ op'.name = "display"
  /\ (vt._forceFullRedraw \/ DirtyCells(vt) # {})

(* the force flag is set or more than 70% of the cells are dirty *)
WantsFull(s) ==
  \/ s._forceFullRedraw
  \/ Cardinality(DirtyCells(s)) * 10 > s._width * s._height * 7

(* no full redraw, and at most 30% of the rows hold a dirty cell *)
WantsSparse(s) ==
  ~WantsFull(s) /\ Cardinality(DirtyRowSet(s)) * 10 <= s._height * 3

(* the repaint in full of the rows of a set, top to bottom *)
RECURSIVE RowsPaintOf(_, _, _)
RowsPaintOf(s, y, rows) ==
  IF y > s._height THEN <<>>
  ELSE (IF y \in rows THEN RowPaint(s, y) ELSE <<>>)
         \o RowsPaintOf(s, y + 1, rows)

(* the dirty cells of the rows 2..height-1 and all cells of rows 1, height *)
SparseCells(s) ==
  {<<x, y>> \in (1..s._width) \X DirtyRowSet(s) :
     y = 1 \/ y = s._height \/ CellAt(s, x, y).dirty}

(* C16: display() repaints all width*height cells iff the force flag is    *)
(* set or more than 70% of the cells are dirty (exactly 70% does not);     *)
(* otherwise, with at most 30% of the rows dirty, it makes a sparse update *)
(* that paints no clean cell of a row 2..height-1 and no clean row;        *)
(* otherwise it repaints every row that holds a dirty cell in full and no  *)
(* other row.                                                              *)
C16_StrategyByThresholds ==
  [][DisplayPaints
     => /\ WantsFull(vt)
             => PaintCmds(vt'._output)
                  = RowsPaint(vt, 1) \o CursorRestore(vt)
        /\ WantsSparse(vt)
             => /\ Len(Glyphs(vt'._output)) <= Cardinality(SparseCells(vt))
                /\ \A i \in 1..(Len(Positionings(vt'._output))
                                  - Len(CursorRestore(vt))) :
                     (Positionings(vt'._output)[i].a - vt._posY + 1)
                       \in DirtyRowSet(vt)
        /\ (~WantsFull(vt) /\ ~WantsSparse(vt))
             => PaintCmds(vt'._output)
                  = RowsPaintOf(vt, 1, DirtyRowSet(vt))
                      \o CursorRestore(vt)]_vars

(* the positionings and glyphs of a sparse update of row y from column x   *)
(* on: a positioning at the first cell of each run of dirty cells, and the *)
(* glyph of every dirty cell                                               *)
RECURSIVE RunsPaint(_, _, _)
RunsPaint(s, y, x) ==
  IF x > s._width THEN <<>>
  ELSE LET dirty == CellAt(s, x, y).dirty
           starts == dirty /\ (x = 1 \/ ~CellAt(s, x - 1, y).dirty)
       IN (IF starts
           THEN <<Cmd("CUP", s._posY + y - 1, s._posX + x - 1)>> ELSE <<>>)
            \o (IF dirty THEN <<Cmd("CH", CellAt(s, x, y).character, 0)>>
                ELSE <<>>)
            \o RunsPaint(s, y, x + 1)

RECURSIVE SparsePaint(_, _)
SparsePaint(s, y) ==
  IF y > s._height THEN <<>>
  ELSE (IF y \notin DirtyRowSet(s) THEN <<>>
        ELSE IF y = 1 \/ y = s._height THEN RowPaint(s, y)
        ELSE RunsPaint(s, y, 1))
         \o SparsePaint(s, y + 1)

(* C17: a sparse update repaints a dirty first or last row in full and, of *)
(* every other dirty row, exactly the dirty cells, with one positioning    *)
(* per maximal run of dirty cells, at the run's first column - wherever    *)
(* the runs lie, the last column included.                                 *)
C17_SparsePaintsRuns ==
  [][(DisplayPaints /\ WantsSparse(vt))
     => PaintCmds(vt'._output) = SparsePaint(vt, 1) \o CursorRestore(vt)]_vars

(* where on the screen the terminal's cursor is after the first i commands *)
(* of a record, as <<column, row>>: a positioning moves it, a glyph        *)
(* advances it by one column                                               *)
RECURSIVE CursorAfter(_, _)
CursorAfter(out, i) ==
  IF i = 0 THEN <<0, 0>>
  ELSE IF out[i].cmd = "CUP" THEN <<out[i].b, out[i].a>>
  ELSE IF out[i].cmd = "CH"
  THEN LET p == CursorAfter(out, i - 1) IN <<p[1] + 1, p[2]>>
  ELSE CursorAfter(out, i - 1)

(* the grid cell <<x, y>> under screen position p *)
GridCell(s, p) == <<p[1] - s._posX + 1, p[2] - s._posY + 1>>

(* the indexes of the glyphs of a record *)
GlyphIdx(out) ==
  SelectSeq([k \in 1..Len(out) |-> k], LAMBDA k : out[k].cmd = "CH")

(* the cells whose glyphs a record holds, in the order painted *)
PaintedCells(s, out) ==
  LET g == GlyphIdx(out)
  IN [n \in 1..Len(g) |-> GridCell(s, CursorAfter(out, g[n] - 1))]

StyleOfCell(c) == <<c.attributes, c.fgColor, c.bgColor>>

(* the values of the style fields in which two styles differ *)
Differing(st, shadow) == {st[f] : f \in {f \in 1..3 : st[f] # shadow[f]}}

(* What is known after one more command c of a display() started in state *)
(* s. m holds what has been seen so far: pos, the terminal's cursor;       *)
(* shadow, the style of the cell painted last (the default style after the *)
(* reset); sent, the style commands since the last glyph; moved, whether a *)
(* positioning came since the last glyph; last, the cell painted last; ok, *)
(* whether every glyph so far had before it exactly one style command per  *)
(* field in which its cell differs from the shadow and no positioning when *)
(* it lies right of the cell painted before it, and every positioning so   *)
(* far went to the first column of a row or to the first cell of a run of  *)
(* dirty cells.                                                            *)
PaintStep(s, m, c) ==
  IF c.cmd = "SGR" THEN [m EXCEPT !.sent = Append(@, c.a)]
  ELSE IF c.cmd = "CUP"
  THEN LET to == GridCell(s, <<c.b, c.a>>)
       IN [m EXCEPT !.pos = <<c.b, c.a>>, !.moved = TRUE,
                    !.ok = \/ to[1] = 1
                           \/ /\ CellAt(s, to[1], to[2]).dirty
                              /\ ~CellAt(s, to[1] - 1, to[2]).dirty]
  ELSE IF c.cmd = "CH"
  THEN LET cell == GridCell(s, m.pos)
           st == StyleOfCell(CellAt(s, cell[1], cell[2]))
       IN [pos |-> <<m.pos[1] + 1, m.pos[2]>>, shadow |-> st,
           sent |-> <<>>, moved |-> FALSE, last |-> cell,
           ok |-> /\ {m.sent[k] : k \in 1..Len(m.sent)}
                      = Differing(st, m.shadow)
                  /\ Len(m.sent) = Cardinality(Differing(st, m.shadow))
                  /\ (cell = <<m.last[1] + 1, m.last[2]>>) => ~m.moved]
  ELSE m

(* the commands out[lo..hi] in order, the first half before the second *)
RECURSIVE PaintWalk(_, _, _, _, _)
PaintWalk(s, out, lo, hi, m) ==
  IF lo > hi THEN m
  ELSE IF lo = hi THEN PaintStep(s, m, out[lo])
  ELSE LET mid == (lo + hi) \div 2
           m1 == PaintWalk(s, out, lo, mid, m)
       IN IF ~m1.ok THEN m1 ELSE PaintWalk(s, out, mid + 1, hi, m1)

(* C18: within one display(), after the style reset, the style commands    *)
(* sent before a glyph are exactly one per field (attribute, foreground,   *)
(* background) in which its cell differs from the shadow state, which is   *)
(* the style of the cell painted before it (the default style for the      *)
(* first) and ends as the style of the last cell painted: so no style      *)
(* command between two cells of identical style; and a positioning is sent *)
(* only at the start of a row or of a run of dirty cells, never between    *)
(* two glyphs painted side by side.                                        *)
C18_StyleAndPositioningMinimal ==
  [][DisplayPaints
     => LET out == vt'._output
            reset == IF out[1].cmd = "SGR" THEN 1 ELSE 2
            m == PaintWalk(vt, out, reset + 1,
                           Len(out) - (IF vt._cursorVisible THEN 2 ELSE 1),
                           [pos |-> <<0, 0>>, last |-> <<0, 0>>,
                            shadow |-> <<RESET, FG_DEFAULT, BG_DEFAULT>>,
                            sent |-> <<>>, moved |-> FALSE, ok |-> TRUE])
        IN /\ out[reset] = Cmd("SGR", RESET, 0)
           /\ [m EXCEPT !.pos = <<>>, !.last = <<>>, !.moved = FALSE]
                = [pos |-> <<>>, last |-> <<>>, moved |-> FALSE,
                   ok |-> TRUE, sent |-> <<>>,
                   shadow |-> <<vt'._terminalAttr, vt'._terminalFg,
                                vt'._terminalBg>>]]_vars

(* a display() has painted part of the grid in at least two rows, sent at  *)
(* least six style commands and left the shadow on a red background        *)
C18_Witness ==
  /\ ~Degraded(vt) /\ op.name = "display"
  /\ Len(Positionings(vt._output)) >= 3
  /\ Len(Glyphs(vt._output)) < vt._width * vt._height
  /\ Len(StyleCmds(vt._output)) >= 6
  /\ vt._terminalBg = BG_RED

(* C19: every display() that paints ends with the force-full-redraw flag   *)
(* cleared; with the cursor-visible flag on, its last two commands are a   *)
(* positioning to (origin_x + cursorX - 1, origin_y + cursorY - 1) and     *)
(* show-cursor; with the flag off, its last command is hide-cursor and no  *)
(* positioning for the cursor precedes it (a positioning there belongs to  *)
(* a dirty cell of the update).                                            *)
C19_FinalizeRestoresCursor ==
  [][DisplayPaints
     => LET out == vt'._output
            n == Len(out)
        IN /\ ~vt'._forceFullRedraw
           /\ n >= 2
           /\ vt._cursorVisible
                => /\ out[n] = Cmd("SHOW", 0, 0)
                   /\ out[n - 1] = Cmd("CUP", vt._posY + vt._cursorY - 1,
                                       vt._posX + vt._cursorX - 1)
           /\ ~vt._cursorVisible
                => /\ out[n] = Cmd("HIDE", 0, 0)
                   /\ Cmd("SHOW", 0, 0) \notin {out[k] : k \in 1..n}
                   /\ out[n - 1].cmd = "CUP"
                        => LET to == GridCell(vt, <<out[n - 1].b,
                                                   out[n - 1].a>>)
                           IN /\ InGrid(vt, to[1], to[2])
                              /\ CellAt(vt, to[1], to[2]).dirty]_vars

(* a forced display() with the cursor hidden has painted the grid and      *)
(* ended with hide-cursor, the flag cleared                                *)
C19_Witness ==
  /\ ~Degraded(vt) /\ op.name = "display" /\ prev.name = "forceFullRedraw"
  /\ ~vt._cursorVisible /\ ~vt._forceFullRedraw
  /\ Len(Glyphs(vt._output)) = vt._width * vt._height
  /\ vt._output[Len(vt._output)] = Cmd("HIDE", 0, 0)

(* the buffer indexes whose dirty flag a step changes from true to false *)
Cleared ==
  {i \in DOMAIN vt._buffer : vt._buffer[i].dirty /\ ~vt'._buffer[i].dirty}

(* the buffer indexes of the cells whose glyphs a record holds *)
PaintedIdx(s, out) ==
  LET cells == PaintedCells(s, out)
  IN {(cells[n][2] - 1) * s._width + (cells[n][1] - 1) : n \in DOMAIN cells}

(* C20: a dirty flag changes from true to false only in a display() call,  *)
(* and only for a cell whose glyph that call has written to the sink - so  *)
(* write, print, setCursor, scrollUp, clear, begin, forceFullRedraw and    *)
(* setPosition never clear one; and write() of a printable byte with the   *)
(* cursor inside the grid leaves the cell that was under the cursor dirty. *)
C20_OnlyDisplayCleansWhatItPaints ==
  [][/\ Cleared # {}
        => /\ op'.name = "display"
           /\ Cleared \subseteq PaintedIdx(vt, vt'._output)
     /\ (/\ ~Degraded(vt) /\ op'.name = "write"
         /\ PrintableByte(op'.args[1]) /\ InGrid(vt, vt._cursorX, vt._cursorY))
        => vt'._buffer[(vt._cursorY - 1) * vt._width
                        + (vt._cursorX - 1)].dirty]_vars

(* display() has painted cells clean, and the setPosition() after it has   *)
(* raised the force flag and left them clean                               *)
C20_Witness ==
  /\ ~Degraded(vt) /\ prev.name = "display" /\ op.name = "setPosition"
  /\ \E i \in DOMAIN vt._buffer : ~vt._buffer[i].dirty
  /\ vt._forceFullRedraw

(* the step is write() of the byte c on a working instance *)
WritesByte(c) == ~Degraded(vt) /\ op'.name = "write" /\ op'.args[1] = c

(* C21: write of a newline sets the column to 1 and the row to row + 1 and *)
(* changes no cell and scrolls nothing, except that when row + 1 exceeds   *)
(* height and scrolling is enabled it calls scrollUp(1) exactly once and   *)
(* leaves the cursor at (1,height); with scrolling disabled the cursor is  *)
(* left past the grid, at (1,height+1) from the last row, and the grid is  *)
(* unchanged.                                                              *)
C21_NewlineAdvancesRow ==
  [][WritesByte(NL)
     => IF vt._cursorY + 1 > vt._height /\ vt._scrollEnabled
        THEN /\ vt'.scrollLog = <<1>>
             /\ vt'._cursorX = 1 /\ vt'._cursorY = vt._height
        ELSE /\ vt'.scrollLog = <<>>
             /\ vt'._buffer = vt._buffer
             /\ vt'._cursorX = 1 /\ vt'._cursorY = vt._cursorY + 1]_vars

(* C22: write of a carriage return sets the column to 1; write of a        *)
(* backspace decrements the column if it is above 1 and does nothing at    *)
(* column 1; every other byte below 32 except the newline leaves the       *)
(* cursor where it is; and none of these changes the cursor row, a cell's  *)
(* glyph, style or dirty flag, or the force-full-redraw flag.              *)
C22_ControlBytesMoveColumnOnly ==
  [][(/\ ~Degraded(vt) /\ op'.name = "write"
      /\ ~PrintableByte(op'.args[1]) /\ op'.args[1] # NL)
     => /\ vt'._cursorX =
             (IF op'.args[1] = CR THEN 1
              ELSE IF op'.args[1] = BS /\ vt._cursorX > 1
              THEN vt._cursorX - 1
              ELSE vt._cursorX)
        /\ vt'._cursorY = vt._cursorY
        /\ vt'._buffer = vt._buffer
        /\ vt'._forceFullRedraw = vt._forceFullRedraw
        /\ vt'.scrollLog = <<>>]_vars

(* a backspace at column 1 has left the cursor there, on a grid that holds *)
(* a written glyph                                                         *)
C22_Witness ==
  /\ ~Degraded(vt) /\ op.name = "write" /\ op.args[1] = BS
  /\ op.at[1] = 1 /\ vt._cursorX = 1
  /\ \E i \in DOMAIN vt._buffer : vt._buffer[i].character # SPACE

(* the glyph the screen shows where the cell (x,y) of the region lies *)
Shown(s, sc, x, y) == ScreenAt(sc, <<s._posX + x - 1, s._posY + y - 1>>)

(* C23: when display() has returned, the screen shows at every cell of the *)
(* region the glyph the grid holds there - whatever writes, scrolls,       *)
(* clears, repositionings and displays came before.                        *)
C23_ScreenShowsGrid ==
  (~Degraded(vt) /\ op.name = "display")
    => \A x \in 1..vt._width, y \in 1..vt._height :
         Shown(vt, screen, x, y) = CellAt(vt, x, y).character

(* What the terminal makes of a style command: ESC[0m, which is also what  *)
(* the attribute RESET sends, puts foreground and background back to the   *)
(* defaults; a colour code sets that colour; another attribute leaves the  *)
(* colours alone. col is <<foreground, background>>.                       *)
EffectiveColours(col, a) ==
  IF a = RESET THEN <<FG_DEFAULT, BG_DEFAULT>>
  ELSE IF a >= 30 /\ a <= 39 THEN <<a, col[2]>>
  ELSE IF a >= 40 /\ a <= 49 THEN <<col[1], a>>
  ELSE col

(* What is known after one more command c of a display() started in state *)
(* s: pos, the terminal's cursor; col, the terminal's colours; ok, whether *)
(* every glyph so far was written in the colours of its cell.              *)
ColourStep(s, m, c) ==
  IF c.cmd = "SGR" THEN [m EXCEPT !.col = EffectiveColours(@, c.a)]
  ELSE IF c.cmd = "CUP" THEN [m EXCEPT !.pos = <<c.b, c.a>>]
  ELSE IF c.cmd = "CH"
  THEN LET cell == GridCell(s, m.pos)
       IN [m EXCEPT !.pos = <<@[1] + 1, @[2]>>,
                    !.ok = m.col = <<CellAt(s, cell[1], cell[2]).fgColor,
                                     CellAt(s, cell[1], cell[2]).bgColor>>]
  ELSE m

(* the commands out[lo..hi] in order, the first half before the second *)
RECURSIVE ColourWalk(_, _, _, _, _)
ColourWalk(s, out, lo, hi, m) ==
  IF lo > hi THEN m
  ELSE IF lo = hi THEN ColourStep(s, m, out[lo])
  ELSE LET mid == (lo + hi) \div 2
           m1 == ColourWalk(s, out, lo, mid, m)
       IN IF ~m1.ok THEN m1 ELSE ColourWalk(s, out, mid + 1, hi, m1)

(* C24: every glyph display() writes is written while the terminal's       *)
(* foreground and background are the fgColor and bgColor of the cell being *)
(* painted, whatever colours the terminal had when display() was called    *)
(* (another instance on the same sink may have set them).                  *)
C24_GlyphsInCellColours ==
  [][DisplayPaints
     => ColourWalk(vt, vt'._output, 1, Len(vt'._output),
                   [pos |-> <<0, 0>>, ok |-> TRUE,
                    col |-> <<Indeterminate, Indeterminate>>]).ok]_vars

(* the style that write(), clear() and scrollUp() stamp into cells *)
WriteStyle(s) == <<s._currentFg, s._currentBg, s._currentAttr>>

(* C25: display() leaves the style used for subsequent writes unchanged:   *)
(* the current foreground, background and attribute are the same after it  *)
(* as before it.                                                           *)
C25_DisplayKeepsWriteStyle ==
  [][(~Degraded(vt) /\ op'.name = "display")
     => WriteStyle(vt') = WriteStyle(vt)]_vars

(* C27: after begin(fg,bg) on a working instance every cell is a dirty     *)
(* space, the cursor is at (1,1), a full redraw is forced, and the passed  *)
(* defaults are in effect: every cell's foreground and background, and the *)
(* style of glyphs written from then on, are fg and bg.                    *)
C27_BeginAppliesDefaults ==
  [][(~Degraded(vt) /\ op'.name = "begin")
     => /\ \A i \in DOMAIN vt'._buffer :
             /\ vt'._buffer[i].character = SPACE
             /\ vt'._buffer[i].dirty
             /\ vt'._buffer[i].fgColor = op'.args[1]
             /\ vt'._buffer[i].bgColor = op'.args[2]
        /\ vt'._cursorX = 1 /\ vt'._cursorY = 1
        /\ vt'._forceFullRedraw
        /\ vt'._currentFg = op'.args[1]
        /\ vt'._currentBg = op'.args[2]]_vars

(* the screen position p = <<column, row>> lies in the region's rectangle *)
InRegion(s, p) ==
  /\ p[1] >= s._posX /\ p[1] <= s._posX + s._width - 1
  /\ p[2] >= s._posY /\ p[2] <= s._posY + s._height - 1

(* the region fits the range of physical coordinates *)
FitsScreen(s) ==
  s._posX + s._width - 1 < UINT8 /\ s._posY + s._height - 1 < UINT8

(* C26: for a region that fits the physical coordinate range, every        *)
(* positioning that display() and clear(true) send goes to a position      *)
(* inside the region's rectangle and every glyph they send is stored       *)
(* inside it - the final cursor restore included, also when the logical    *)
(* cursor has been pushed past the last row with scrolling disabled.       *)
C26_OutputStaysInRegion ==
  [][(/\ ~Degraded(vt) /\ FitsScreen(vt)
      /\ \/ op'.name = "display"
         \/ op'.name = "clear" /\ op'.args[1])
     => \A k \in 1..Len(vt'._output) :
          /\ vt'._output[k].cmd = "CUP"
               => InRegion(vt, <<vt'._output[k].b, vt'._output[k].a>>)
          /\ vt'._output[k].cmd = "CH"
               => InRegion(vt, CursorAfter(vt'._output, k - 1))]_vars

(* the byte is a decimal digit *)
Digit(c) == c >= ZERO /\ c <= NINE

(* the bytes c1, c2 are two digits that form a code 00..32 *)
PipeCode(c1, c2) ==
  Digit(c1) /\ Digit(c2) /\ (c1 - ZERO) * 10 + (c2 - ZERO) <= 32

(* the sink receives exactly the commands more in this step *)
SinkReceives(more) == ansi'._output = ansi._output \o more

C29_NoByteLost ==
  Len(ansi.written) = Len(Glyphs(ansi._output))
                        + 3 * Len(StyleCmds(ansi._output))
                        + ansi._pipeSequenceState

====
